---------------------------- MODULE Spec2Model ----------------------------
(***************************************************************************)
(* Secret Santa bot: the game-state and pairing store (MemoryStore and     *)
(* SqliteStore), the pairing generator shuffle_pair, and the handlers of   *)
(* SantaBot that drive the store.                                          *)
(*                                                                         *)
(* Identifiers (user id, group id, poll id, game name) are opaque and only *)
(* compared for equality, so they are modelled as small integers.          *)
(* A Python dict is a set of <<key, value>> pairs with distinct keys.      *)
(* A Python list whose order the code never relies on (it is shuffled      *)
(* before use) is kept as a sequence in a canonical order.                 *)
(***************************************************************************)
EXTENDS Integers, Sequences, FiniteSets, TLC

\* ------------------------------------------------------------------ bounds
NumUsers == 2
\* participant rows one game_id may hold in the relational backend
MaxRows == 4
\* reshuffle generations one poll may hold in the relational backend
MaxReshuffle == 2
\* store calls in one run of the store on its own
MaxSteps == 4
\* handler steps in one run of the bot
MaxBotSteps == 8
\* /new and /shuffle handlers in progress at the same time
MaxNewHandlers == 2
MaxShuffleHandlers == 1
\* length of the lists a caller of the store shuffles into a pairing
MaxListLen == 2
\* length of the lists shuffle_pair is applied to as a pure function
MaxItems == 4

\* len(users) < 4 in _handle_shuffle
MinPlayers == 4

Users == 1..NumUsers
\* The games of a run: one name, used in two groups, and the two polls that
\* recruit for them. A game is identified by (name, group), so the two games
\* share their name and differ in their group.
Names == {1}
GroupIds == {1, 2}
PollIds == {1, 2}

\* models/game.py: a frozen dataclass, compared by value
Game(name, group_id) == [name |-> name, group_id |-> group_id]
Games == [name : Names, group_id : GroupIds]

\* ------------------------------------------------------------ dict helpers
Keys(d) == {kv[1] : kv \in d}
Values(d) == {kv[2] : kv \in d}
IsDict(d) == \A a, b \in d : a[1] = b[1] => a = b
Lookup(d, k) == (CHOOSE kv \in d : kv[1] = k)[2]

\* results of a store call: a value, None, or an exception raised to the caller
Ret(v) == [kind |-> "value", val |-> v]
None == [kind |-> "None"]
Raise(e) == [kind |-> "raise", exc |-> e]

VARIABLES
    backend,               \* main.py: the store the process was started with
    disable_restrictions,  \* main.py: --no-restriction
    \* MemoryStore fields
    group_games, user_games, game_users, pairings, polls, leaders,
    \* SqliteStore tables
    game, participant, pairing,
    \* SqliteStore tables of schema versions 2 and 3
    wishlist, wishlist_item, user,
    \* the sqlite database file: PRAGMA user_version and the tables that
    \* exist, as committed; the open transaction; the position of
    \* SchemaManager.set_up_schema
    user_version, tables, txn, sch,
    \* the abstract methods of Store that the class of the store object
    \* supplies beyond those PickleStore defines; the snapshot file; the
    \* process started with --store pickle
    supplied, snapshot, proc,
    \* the two stores run side by side: whose turn it is and the call in
    \* progress; what SantaBot.__get_user_reference returned last; the
    \* (user, poll) pairs whose latest poll answer chose JOIN_STRING
    pair, ref_returned, joined,
    \* the most recent store call and the exception it raised
    last,
    steps,
    \* SantaBot handlers in progress: each is a coroutine that can be
    \* suspended at an await
    new_h, shuffle_h,
    \* the ids Telegram has given to the polls the bot sent
    polls_sent,
    \* one call of shuffle_pair: its argument, the order random.shuffle
    \* produced, the dict returned
    gen_items, gen_order, gen_result, gen_pc

memVars == <<group_games, user_games, game_users, pairings, polls, leaders>>
sqlVars == <<game, participant, pairing>>
cfgVars == <<backend, disable_restrictions>>
botVars == <<new_h, shuffle_h, polls_sent>>
genVars == <<gen_items, gen_order, gen_result, gen_pc>>
wishVars == <<wishlist, wishlist_item, user>>
schemaVars == <<user_version, tables, txn, sch>>
pickleVars == <<supplied, snapshot, proc>>
sideVars == <<pair, ref_returned, joined>>
storeVars == <<group_games, user_games, game_users, pairings, polls, leaders,
               game, participant, pairing>>
vars == <<backend, disable_restrictions, group_games, user_games, game_users,
          pairings, polls, leaders, game, participant, pairing, last, steps,
          new_h, shuffle_h, polls_sent, gen_items, gen_order, gen_result, gen_pc,
          wishlist, wishlist_item, user, user_version, tables, txn, sch,
          supplied, snapshot, proc, pair, ref_returned, joined>>

\* an absent key of MemoryStore.__pairings / a present one
NoEntry == [present |-> FALSE, map |-> {}]
Entry(d) == [present |-> TRUE, map |-> d]
\* an absent key of MemoryStore.__leaders
NoLeader == 0

\* the most recent store call: its name and the exception it raised ("" when
\* it returned)
Call(op, exc) == [op |-> op, exc |-> exc]
Raised == last.exc # ""

\* ---------------------------------------------------------- shuffle_pair
\* shuffle_pair without the wrap-around of (i + 1) % n: the last item is
\* paired with itself
ShufflePairNoWrap(items) ==
    LET n == Len(items)
    IN  {<<items[i], items[IF i = n THEN n ELSE i + 1]>> :
            i \in {i \in 1..n : \A j \in (i+1)..n : items[j] # items[i]}}

\* a comprehension that pairs index i with (i + 2) % n
ShufflePairSkipOne(items) ==
    LET n == Len(items)
    IN  {<<items[i], items[((i + 1) % n) + 1]>> :
            i \in {i \in 1..n : \A j \in (i+1)..n : items[j] # items[i]}}

\* utils.py shuffle_pair, for the order `items` that random.shuffle produced:
\* the dict comprehension pairs index i with (i + 1) % n, and for a key that
\* occurs more than once the entry written last (largest i) stays.
ShufflePair(items) ==
    LET n == Len(items)
    IN  {<<items[i], items[(i % n) + 1]>> :
            i \in {i \in 1..n : \A j \in (i+1)..n : items[j] # items[i]}}

\* random.shuffle: every reordering of the list is a possible outcome
Shuffles(items) ==
    LET n == Len(items)
    IN  {[i \in 1..n |-> items[p[i]]] :
            p \in {q \in [1..n -> 1..n] : \A i, j \in 1..n : q[i] = q[j] => i = j}}

\* a list holding each element of a set once, in ascending order
RECURSIVE SetToList(_)
SetToList(S) ==
    IF S = {} THEN << >>
    ELSE LET m == CHOOSE x \in S : \A y \in S : x <= y
         IN  <<m>> \o SetToList(S \ {m})

\* how many times x occurs in a list
Count(list, x) == Cardinality({i \in 1..Len(list) : list[i] = x})

\* ------------------------------------------------------------ MemoryStore
\* bidict.inverse[poll_id]
MemGetGame(poll_id) ==
    IF \E kv \in polls : kv[2] = poll_id
    THEN Ret((CHOOSE kv \in polls : kv[2] = poll_id)[1])
    ELSE Raise("KeyError")

MemGetLeader(poll_id) ==
    LET g == MemGetGame(poll_id)
    IN  IF g.kind = "raise" THEN g
        ELSE IF leaders[g.val] = NoLeader THEN Raise("KeyError")
        ELSE Ret(leaders[g.val])

MemGameExists(name, group_id) == Game(name, group_id) \in group_games[group_id]

\* create_game with its assert statement left out
MemCreateGameNoAssert(name, group_id) == TRUE

\* assert not await self.game_exists(game_name, group)
MemCreateGameAssert(name, group_id) == ~MemGameExists(name, group_id)

\* bidict __setitem__: a value already bound to another key raises
\* ValueDuplicationError and leaves the bidict as it was
BidictCanPut(key, val) == ~\E kv \in polls : kv[2] = val /\ kv[1] # key

\* bidict __setitem__ when it does not raise: an existing key is rebound
BidictPut(key, val) == {kv \in polls : kv[1] # key} \cup {<<key, val>>}

MemCreateGame(name, group_id, poll_id, leader_id) ==
    LET new_game == Game(name, group_id)
    IN  /\ UNCHANGED <<user_games, game_users, pairings>>
        /\ IF ~MemCreateGameAssert(name, group_id)
           THEN /\ UNCHANGED <<group_games, polls, leaders>>
                /\ last' = Call("create_game", "AssertionError")
           ELSE /\ group_games' = [group_games EXCEPT ![group_id] = @ \cup {new_game}]
                /\ IF BidictCanPut(new_game, poll_id)
                   THEN /\ polls' = BidictPut(new_game, poll_id)
                        /\ leaders' = [leaders EXCEPT ![new_game] = leader_id]
                        /\ last' = Call("create_game", "")
                   ELSE /\ UNCHANGED <<polls, leaders>>
                        /\ last' = Call("create_game", "ValueDuplicationError")

\* the three assert statements of save_pairings
MemSavePairingsAssert(g, prs) ==
    /\ g \in group_games[g.group_id]
    /\ Keys(prs) = Values(prs)
    /\ Values(prs) = game_users[g]
    /\ \A user_id \in game_users[g] : g \in user_games[user_id]

MemSavePairings(poll_id, prs) ==
    LET g == MemGetGame(poll_id)
    IN  /\ UNCHANGED <<group_games, user_games, game_users, polls, leaders>>
        /\ IF g.kind = "raise" \/ ~MemSavePairingsAssert(g.val, prs)
           THEN /\ UNCHANGED pairings
                /\ last' = Call("save_pairings", IF g.kind = "raise" THEN "KeyError" ELSE "AssertionError")
           ELSE /\ pairings' = [pairings EXCEPT ![g.val] = Entry(prs)]
                /\ last' = Call("save_pairings", "")

\* list(self.__game_users[game])
MemGetUsers(poll_id) ==
    LET g == MemGetGame(poll_id)
    IN  IF g.kind = "raise" THEN g ELSE Ret(SetToList(game_users[g.val]))

\* the list get_pairings returns, as the set of its (game, recipient) entries
MemGetPairingsResult(user_id) ==
    {<<g, Lookup(pairings[g].map, user_id)>> :
        g \in {h \in user_games[user_id] : user_id \in Keys(pairings[h].map)}}

\* get_pairings indexes the defaultdict __pairings with every game of the
\* user, which inserts an empty dict for a game that has no entry yet
MemGetPairings(user_id) ==
    /\ pairings' = [g \in Games |->
                      IF g \in user_games[user_id] /\ ~pairings[g].present
                      THEN Entry({}) ELSE pairings[g]]
    /\ UNCHANGED <<group_games, user_games, game_users, polls, leaders>>
    /\ last' = Call("get_pairings", "")

MemGetGamePairings(poll_id) ==
    LET g == MemGetGame(poll_id)
    IN  IF g.kind = "raise" THEN g
        ELSE IF ~pairings[g.val].present THEN None
        ELSE Ret(pairings[g.val].map)

\* an add_user_to_game that leaves __user_games alone
MemUserGamesAfterAddUnchanged(user_id, g) == user_games

\* self.__user_games[user_id].add(game)
MemUserGamesAfterAdd(user_id, g) == [user_games EXCEPT ![user_id] = @ \cup {g}]

MemAddUserToGame(user_id, poll_id) ==
    LET g == MemGetGame(poll_id)
    IN  /\ UNCHANGED <<group_games, pairings, polls, leaders>>
        /\ IF g.kind = "raise"
           THEN /\ UNCHANGED <<game_users, user_games>>
                /\ last' = Call("add_user_to_game", "KeyError")
           ELSE /\ game_users' = [game_users EXCEPT ![g.val] = @ \cup {user_id}]
                /\ user_games' = MemUserGamesAfterAdd(user_id, g.val)
                /\ last' = Call("add_user_to_game", "")

\* set.remove raises KeyError for an element that is not in the set
SetRemoveRaises(S, x) == x \notin S

MemRemoveUserFromGame(user_id, poll_id) ==
    LET g == MemGetGame(poll_id)
    IN  /\ UNCHANGED <<group_games, pairings, polls, leaders>>
        /\ IF g.kind = "raise" \/ SetRemoveRaises(game_users[g.val], user_id)
           THEN /\ UNCHANGED <<game_users, user_games>>
                /\ last' = Call("remove_user_from_game", "KeyError")
           ELSE /\ game_users' = [game_users EXCEPT ![g.val] = @ \ {user_id}]
                /\ IF SetRemoveRaises(user_games[user_id], g.val)
                   THEN /\ UNCHANGED user_games
                        /\ last' = Call("remove_user_from_game", "KeyError")
                   ELSE /\ user_games' = [user_games EXCEPT ![user_id] = @ \ {g.val}]
                        /\ last' = Call("remove_user_from_game", "")

\* ------------------------------------------------------------ SqliteStore
\* The sqlite3 calls of one store method run without an await between them
\* and inside one `with connection` block, which commits on return and rolls
\* back on an exception: a method is one step, and a failed one changes no
\* table. PRAGMA foreign_keys is never switched on, so REFERENCES clauses
\* are not enforced.

\* the game table without UNIQUE (name, group_id)
SqlGameInsertOkPrimaryKeyOnly(name, group_id, poll_id) ==
    ~\E r \in game : r.poll_id = poll_id

\* game: poll_id PRIMARY KEY, UNIQUE (name, group_id)
SqlGameInsertOk(name, group_id, poll_id) ==
    ~\E r \in game : r.poll_id = poll_id \/ (r.name = name /\ r.group_id = group_id)

SqlCreateGame(name, group_id, poll_id, leader_id) ==
    /\ UNCHANGED <<participant, pairing>>
    /\ IF SqlGameInsertOk(name, group_id, poll_id)
       THEN /\ game' = game \cup {[poll_id |-> poll_id, name |-> name,
                                   group_id |-> group_id, leader_id |-> leader_id]}
            /\ last' = Call("create_game", "")
       ELSE /\ UNCHANGED game
            /\ last' = Call("create_game", "IntegrityError")

SqlGetGame(poll_id) ==
    IF \E r \in game : r.poll_id = poll_id
    THEN LET r == CHOOSE r \in game : r.poll_id = poll_id
         IN  Ret(Game(r.name, r.group_id))
    ELSE None

\* data[0] with data None raises TypeError
SqlGetLeader(poll_id) ==
    IF \E r \in game : r.poll_id = poll_id
    THEN Ret((CHOOSE r \in game : r.poll_id = poll_id).leader_id)
    ELSE Raise("TypeError")

SqlGameExists(name, group_id) ==
    \E r \in game : r.name = name /\ r.group_id = group_id

\* SELECT COALESCE(MAX(reshuffle), 0) FROM pairing WHERE poll_id = :poll_id
SqlMaxReshuffle(poll_id) ==
    LET gens == {r.reshuffle : r \in {q \in pairing : q.poll_id = poll_id}}
    IN  IF gens = {} THEN 0 ELSE CHOOSE m \in gens : \A k \in gens : k <= m

\* pairing: UNIQUE (poll_id, reshuffle, santa_id),
\*          UNIQUE (poll_id, reshuffle, recipient_id)
SqlPairingInsertOk(rows) ==
    /\ rows \cap pairing = {}
    /\ \A a, b \in pairing \cup rows :
          (a.poll_id = b.poll_id /\ a.reshuffle = b.reshuffle /\ a # b)
             => (a.santa_id # b.santa_id /\ a.recipient_id # b.recipient_id)

\* the generation without the + 1 of "reshuffle": reshuffles + 1
SqlNextReshuffleNoIncrement(poll_id) == SqlMaxReshuffle(poll_id)

\* "reshuffle": reshuffles + 1
SqlNextReshuffle(poll_id) == SqlMaxReshuffle(poll_id) + 1

\* the rows executemany inserts
SqlPairingRows(poll_id, prs) ==
    {[poll_id |-> poll_id, reshuffle |-> SqlNextReshuffle(poll_id),
      santa_id |-> kv[1], recipient_id |-> kv[2]] : kv \in prs}

\* a failed call that keeps the row inserted before the one that was refused
SqlFailedSaveRowsNoRollback(poll_id, prs) ==
    pairing \cup {CHOOSE r \in SqlPairingRows(poll_id, prs) : {r} \cap pairing = {}}

\* the table after executemany raised inside `with self.__connection`: the
\* context manager rolls the transaction back
SqlFailedSaveRows(poll_id, prs) == pairing

SqlSavePairings(poll_id, prs) ==
    LET rows == SqlPairingRows(poll_id, prs)
    IN  /\ rows # {} => SqlMaxReshuffle(poll_id) < MaxReshuffle
        /\ UNCHANGED <<game, participant>>
        /\ IF SqlPairingInsertOk(rows)
           THEN /\ pairing' = pairing \cup rows
                /\ last' = Call("save_pairings", "")
           ELSE /\ pairing' = SqlFailedSaveRows(poll_id, prs)
                /\ last' = Call("save_pairings", "IntegrityError")

\* SELECT user_id FROM participant WHERE game_id = :poll_id: one list entry
\* per row
RECURSIVE Repeat(_, _)
Repeat(x, n) == IF n = 0 THEN << >> ELSE <<x>> \o Repeat(x, n - 1)

RECURSIVE SqlUserRows(_, _)
SqlUserRows(poll_id, u) ==
    IF u > NumUsers THEN << >>
    ELSE Repeat(u, participant[<<poll_id, u>>]) \o SqlUserRows(poll_id, u + 1)

SqlGetUsers(poll_id) == Ret(SqlUserRows(poll_id, 1))

\* WITH last_shuffle AS (SELECT poll_id, MAX(reshuffle) ... GROUP BY poll_id)
\* ... FROM pairing INNER JOIN last_shuffle USING (poll_id, reshuffle)
\* the rows of the latest generation whose santa still participates
SqlLastShuffleRowsOfParticipants ==
    {r \in pairing : /\ r.reshuffle = SqlMaxReshuffle(r.poll_id)
                     /\ participant[<<r.poll_id, r.santa_id>>] > 0}

SqlLastShuffleRows ==
    {r \in pairing : r.reshuffle = SqlMaxReshuffle(r.poll_id)}

\* ... INNER JOIN game USING (poll_id) WHERE santa_id = :user_id
SqlGetPairingsResult(user_id) ==
    {<<Game(g.name, g.group_id), r.recipient_id>> :
        <<r, g>> \in {rg \in SqlLastShuffleRows \X game :
                        rg[1].poll_id = rg[2].poll_id /\ rg[1].santa_id = user_id}}

SqlGetPairings(user_id) ==
    /\ UNCHANGED <<game, participant, pairing>>
    /\ last' = Call("get_pairings", "")

\* if not data: return None
SqlGetGamePairings(poll_id) ==
    LET data == {r \in SqlLastShuffleRows : r.poll_id = poll_id}
    IN  IF data = {} THEN None
        ELSE Ret({<<r.santa_id, r.recipient_id>> : r \in data})

\* rows of participant with game_id = poll_id
SqlRowCount(poll_id) ==
    LET RECURSIVE Sum(_)
        Sum(u) == IF u > NumUsers THEN 0 ELSE participant[<<poll_id, u>>] + Sum(u + 1)
    IN  Sum(1)

\* INSERT INTO participant VALUES (:poll_id, :user_id): the table has no key
SqlAddUserToGame(user_id, poll_id) ==
    /\ SqlRowCount(poll_id) < MaxRows
    /\ participant' = [participant EXCEPT ![<<poll_id, user_id>>] = @ + 1]
    /\ UNCHANGED <<game, pairing>>
    /\ last' = Call("add_user_to_game", "")

\* a delete that names the user and not the game
SqlRemoveUserFromGameAnyGame(user_id, poll_id) ==
    /\ participant' = [k \in DOMAIN participant |->
                            IF k[2] = user_id THEN 0 ELSE participant[k]]
    /\ UNCHANGED <<game, pairing>>
    /\ last' = Call("remove_user_from_game", "")

\* DELETE FROM participant WHERE game_id = :poll_id AND user_id = :user_id
SqlRemoveUserFromGame(user_id, poll_id) ==
    /\ participant' = [participant EXCEPT ![<<poll_id, user_id>>] = 0]
    /\ UNCHANGED <<game, pairing>>
    /\ last' = Call("remove_user_from_game", "")

\* ------------------------------------------------- the Store in use (main.py)
get_game(poll_id) ==
    IF backend = "memory" THEN MemGetGame(poll_id) ELSE SqlGetGame(poll_id)

get_leader(poll_id) ==
    IF backend = "memory" THEN MemGetLeader(poll_id) ELSE SqlGetLeader(poll_id)

game_exists(name, group_id) ==
    IF backend = "memory" THEN MemGameExists(name, group_id)
    ELSE SqlGameExists(name, group_id)

get_users(poll_id) ==
    IF backend = "memory" THEN MemGetUsers(poll_id) ELSE SqlGetUsers(poll_id)

get_game_pairings(poll_id) ==
    IF backend = "memory" THEN MemGetGamePairings(poll_id)
    ELSE SqlGetGamePairings(poll_id)

get_pairings_result(user_id) ==
    IF backend = "memory" THEN MemGetPairingsResult(user_id)
    ELSE SqlGetPairingsResult(user_id)

create_game(name, group_id, poll_id, leader_id) ==
    \/ backend = "memory" /\ MemCreateGame(name, group_id, poll_id, leader_id)
                          /\ UNCHANGED sqlVars
    \/ backend = "sqlite" /\ SqlCreateGame(name, group_id, poll_id, leader_id)
                          /\ UNCHANGED memVars

save_pairings(poll_id, prs) ==
    \/ backend = "memory" /\ MemSavePairings(poll_id, prs) /\ UNCHANGED sqlVars
    \/ backend = "sqlite" /\ SqlSavePairings(poll_id, prs) /\ UNCHANGED memVars

get_pairings(user_id) ==
    \/ backend = "memory" /\ MemGetPairings(user_id) /\ UNCHANGED sqlVars
    \/ backend = "sqlite" /\ SqlGetPairings(user_id) /\ UNCHANGED memVars

add_user_to_game(user_id, poll_id) ==
    \/ backend = "memory" /\ MemAddUserToGame(user_id, poll_id) /\ UNCHANGED sqlVars
    \/ backend = "sqlite" /\ SqlAddUserToGame(user_id, poll_id) /\ UNCHANGED memVars

remove_user_from_game(user_id, poll_id) ==
    \/ backend = "memory" /\ MemRemoveUserFromGame(user_id, poll_id) /\ UNCHANGED sqlVars
    \/ backend = "sqlite" /\ SqlRemoveUserFromGame(user_id, poll_id) /\ UNCHANGED memVars

\* ------------------------------------------- SqliteStore: wishlists, users
\* the ids Telegram gives to the wishlist messages the bot sends
MessageIds == {1, 2}
\* the text of a wishlist item
Descriptions == {"socks", "gloves"}
\* Markdown references of users
References == {"@a", "@b"}

\* a wishlist table without UNIQUE on message_id
SqlWishlistInsertOkNoUnique(poll_id, message_id) == TRUE

\* wishlist: message_id INTEGER UNIQUE. A conflict on poll_id is handled by
\* ON CONFLICT (poll_id) DO UPDATE; a message_id held by the row of another
\* poll fails the statement.
SqlWishlistInsertOk(poll_id, message_id) ==
    \A r \in wishlist : r.message_id = message_id => r.poll_id = poll_id

\* INSERT INTO wishlist ... ON CONFLICT (poll_id) DO UPDATE SET message_id
SqlCreateWishlist(poll_id, message_id) ==
    /\ IF SqlWishlistInsertOk(poll_id, message_id)
       THEN /\ wishlist' = {r \in wishlist : r.poll_id # poll_id}
                             \cup {[poll_id |-> poll_id, message_id |-> message_id]}
            /\ last' = Call("create_wishlist", "")
       ELSE /\ UNCHANGED wishlist
            /\ last' = Call("create_wishlist", "IntegrityError")
    /\ UNCHANGED <<wishlist_item, user>>

\* an insert into wishlist_item that adds a row whatever the table holds
SqlWishlistItemInsert(poll_id, user_id, description) ==
    wishlist_item \cup {[wishlist_id |-> poll_id, user_id |-> user_id,
                         description |-> description]}

\* INSERT INTO wishlist_item ... ON CONFLICT (wishlist_id, user_id) DO UPDATE
\* SET description: the table after the statement. updated_at is written and
\* never read.
SqlWishlistItemUpsert(poll_id, user_id, description) ==
    {r \in wishlist_item : ~(r.wishlist_id = poll_id /\ r.user_id = user_id)}
        \cup {[wishlist_id |-> poll_id, user_id |-> user_id,
               description |-> description]}

SqlUpdateWishlist(poll_id, user_id, description) ==
    /\ wishlist_item' = SqlWishlistItemUpsert(poll_id, user_id, description)
    /\ last' = Call("update_wishlist", "")
    /\ UNCHANGED <<wishlist, user>>

\* SELECT poll_id FROM wishlist WHERE message_id = :message_id; fetchone
SqlGetWishlistId(message_id) ==
    LET data == {r \in wishlist : r.message_id = message_id}
    IN  IF data = {} THEN None ELSE Ret((CHOOSE r \in data : TRUE).poll_id)

\* {user_id: description for user_id, description in data}
SqlGetWishlist(poll_id) ==
    Ret({<<r.user_id, r.description>> :
            r \in {q \in wishlist_item : q.wishlist_id = poll_id}})

\* SELECT message_id FROM wishlist WHERE poll_id = :poll_id; fetchone
SqlGetWishlistMessageId(poll_id) ==
    LET data == {r \in wishlist : r.poll_id = poll_id}
    IN  IF data = {} THEN None ELSE Ret((CHOOSE r \in data : TRUE).message_id)

\* SELECT reference FROM user WHERE user_id = :user_id; fetchone
SqlGetUserReference(user_id) ==
    LET data == {r \in user : r.user_id = user_id}
    IN  IF data = {} THEN None ELSE Ret((CHOOSE r \in data : TRUE).reference)

\* INSERT INTO user ... ON CONFLICT (user_id) DO UPDATE SET reference
SqlSaveUserReference(user_id, reference) ==
    /\ user' = {r \in user : r.user_id # user_id}
                 \cup {[user_id |-> user_id, reference |-> reference]}
    /\ last' = Call("save_user_reference", "")
    /\ UNCHANGED <<wishlist, wishlist_item>>

\* ------------------------------------------------------------ SchemaManager
\* runs of set_up_schema on one database file (one per start of the process)
MaxRuns == 3

Create(table) == [kind |-> "create", table |-> table, version |-> 0]
UserVersion(v) == [kind |-> "user_version", table |-> "", version |-> v]

\* the statements of __upgrade_schema_1, __upgrade_schema_2, __upgrade_schema_3
UpgradeSchema(k) ==
    CASE k = 1 -> <<Create("game"), Create("participant"), Create("pairing"),
                    UserVersion(1)>>
      [] k = 2 -> <<Create("wishlist"), Create("wishlist_item"), UserVersion(2)>>
      [] k = 3 -> <<Create("user"), UserVersion(3)>>

\* upgrade_functions, by the number of the step each one is
UpgradeFunctions == <<1, 2, 3>>

\* every upgrade function, whatever the stored version
PendingUpgradesAll(current_version) == UpgradeFunctions

\* upgrade_functions[current_version:]
PendingUpgrades(current_version) ==
    SubSeq(UpgradeFunctions, current_version + 1, Len(UpgradeFunctions))

\* the tables a database at version v holds
TablesAt(v) ==
    {st.table : st \in UNION {{UpgradeSchema(k)[i] : i \in 1..Len(UpgradeSchema(k))} :
                                k \in 1..v}} \ {""}

\* no statement executed since the last commit or rollback
NoTxn == [stmt |-> 0, created |-> {}, version |-> << >>]

SchemaIdle == [pc |-> "idle", current_version |-> 0, pending |-> << >>,
               applied |-> << >>, runs |-> 0]

\* no database file: the in-memory backends
SchemaAbsent ==
    /\ user_version = 0
    /\ tables = {}
    /\ txn = NoTxn
    /\ sch = SchemaIdle

\* SqliteStore.__init__ has returned on a new database file
SchemaSetUp ==
    /\ user_version = Len(UpgradeFunctions)
    /\ tables = TablesAt(Len(UpgradeFunctions))
    /\ txn = NoTxn
    /\ sch = [pc |-> "done", current_version |-> 0, pending |-> << >>,
              applied |-> UpgradeFunctions, runs |-> 1]

\* current_version = connection.execute("PRAGMA user_version").fetchone()[0]
SetUpSchemaRead ==
    /\ sch.pc \in {"idle", "done"}
    /\ sch.runs < MaxRuns
    /\ sch' = [pc |-> "loop", current_version |-> user_version,
               pending |-> PendingUpgrades(user_version),
               applied |-> << >>, runs |-> sch.runs + 1]
    /\ UNCHANGED <<user_version, tables, txn>>

\* one connection.execute of the upgrade function at the head of the loop.
\* CREATE TABLE of a table that exists raises OperationalError: the with
\* block rolls back and set_up_schema raises.
UpgradeStatement ==
    /\ sch.pc = "loop"
    /\ sch.pending # << >>
    /\ txn.stmt < Len(UpgradeSchema(Head(sch.pending)))
    /\ LET st == UpgradeSchema(Head(sch.pending))[txn.stmt + 1]
       IN  IF st.kind = "create" /\ st.table \in tables \cup txn.created
           THEN /\ txn' = NoTxn
                /\ sch' = [sch EXCEPT !.pc = "failed"]
           ELSE /\ txn' = [stmt |-> txn.stmt + 1,
                           created |-> IF st.kind = "create"
                                       THEN txn.created \cup {st.table}
                                       ELSE txn.created,
                           version |-> IF st.kind = "user_version"
                                       THEN <<st.version>>
                                       ELSE txn.version]
                /\ UNCHANGED sch
    /\ UNCHANGED <<user_version, tables>>

\* the end of `with connection:` commits the transaction; the loop moves on
UpgradeCommit ==
    /\ sch.pc = "loop"
    /\ sch.pending # << >>
    /\ txn.stmt = Len(UpgradeSchema(Head(sch.pending)))
    /\ tables' = tables \cup txn.created
    /\ user_version' = IF txn.version = << >> THEN user_version ELSE txn.version[1]
    /\ txn' = NoTxn
    /\ sch' = [sch EXCEPT !.pending = Tail(sch.pending),
                          !.applied = Append(sch.applied, Head(sch.pending))]

\* the loop is over: set_up_schema returns
SetUpSchemaReturn ==
    /\ sch.pc = "loop"
    /\ sch.pending = << >>
    /\ sch' = [sch EXCEPT !.pc = "done"]
    /\ UNCHANGED <<user_version, tables, txn>>

\* the process is killed inside set_up_schema: sqlite drops what was not
\* committed
SchemaCrash ==
    /\ sch.pc = "loop"
    /\ txn' = NoTxn
    /\ sch' = [sch EXCEPT !.pc = "idle"]
    /\ UNCHANGED <<user_version, tables>>

\* the database file behind the store the process was started with
StoreSchema == IF backend = "sqlite" THEN SchemaSetUp ELSE SchemaAbsent

\* -------------------------------------------------------------- PickleStore
\* starts of the process on one snapshot file
MaxStarts == 2
\* calls of pickle() by the repeating job during one run of the process
MaxPickles == 2

\* the methods Store and WishlistMixin declare with @abstractmethod
StoreAbstractMethods ==
    {"create_wishlist", "update_wishlist", "get_wishlist", "create_game",
     "get_game", "get_leader", "game_exists", "save_pairings", "get_users",
     "get_pairings", "get_game_pairings", "add_user_to_game",
     "remove_user_from_game", "get_user_reference", "save_user_reference"}

\* the methods MemoryStore defines
MemoryStoreMethods ==
    {"get_game", "get_leader", "create_game", "game_exists", "save_pairings",
     "get_users", "get_pairings", "get_game_pairings", "add_user_to_game",
     "remove_user_from_game"}

\* class PickleStore(MemoryStore): create, pickle
PickleStoreMethods == MemoryStoreMethods \cup {"create", "pickle"}

\* object.__new__ of a class that leaves an abstract method without a
\* definition raises TypeError, in PickleStore(path) and in pickle.load alike
Instantiable == StoreAbstractMethods \subseteq PickleStoreMethods \cup supplied

\* the fields MemoryStore.__init__ sets
EmptyStore ==
    [group_games |-> [g \in GroupIds |-> {}],
     user_games |-> [u \in Users |-> {}],
     game_users |-> [g \in Games |-> {}],
     pairings |-> [g \in Games |-> NoEntry],
     polls |-> {},
     leaders |-> [g \in Games |-> NoLeader]]

\* the fields of the store object, as pickle.dump writes them
Dumped ==
    [group_games |-> group_games, user_games |-> user_games,
     game_users |-> game_users, pairings |-> pairings, polls |-> polls,
     leaders |-> leaders]

\* the store object pickle.load builds, or the new PickleStore
Loaded(fields) ==
    /\ group_games' = fields.group_games
    /\ user_games' = fields.user_games
    /\ game_users' = fields.game_users
    /\ pairings' = fields.pairings
    /\ polls' = fields.polls
    /\ leaders' = fields.leaders

\* the snapshot file: not there; opened with "wb" and not yet closed, or left
\* so by a process that died (empty or cut short); written and closed
NoFile == [state |-> "absent", fields |-> EmptyStore]
Truncated == [state |-> "truncated", fields |-> EmptyStore]
Complete(fields) == [state |-> "complete", fields |-> fields]

\* a process that was not started with --store pickle
NoPickle ==
    /\ supplied = StoreAbstractMethods \ PickleStoreMethods
    /\ snapshot = NoFile
    /\ proc = [pc |-> "running", starts |-> 0, pickles |-> 0, ended |-> ""]

\* no call in progress on the pair of stores; __get_user_reference not yet
\* called; no poll answer yet
NoArgs == [name |-> 0, group_id |-> 0, poll_id |-> 0, user_id |-> 0, prs |-> {}]
NoPair == [turn |-> "memory", op |-> "init", args |-> NoArgs, mem_exc |-> ""]
NoSide ==
    /\ pair = NoPair
    /\ ref_returned = None
    /\ joined = {}

\* ------------------------------------------------------------ store-level runs
\* MemoryStore.__init__ / SqliteStore.__init__ on a new database file
StoreInit ==
    /\ group_games = [g \in GroupIds |-> {}]
    /\ user_games = [u \in Users |-> {}]
    /\ game_users = [g \in Games |-> {}]
    /\ pairings = [g \in Games |-> NoEntry]
    /\ polls = {}
    /\ leaders = [g \in Games |-> NoLeader]
    /\ game = {}
    /\ participant = [pu \in PollIds \X Users |-> 0]
    /\ pairing = {}
    /\ wishlist = {}
    /\ wishlist_item = {}
    /\ user = {}
    /\ last = Call("init", "")
    /\ steps = 0

IdleNew == [pc |-> "idle", name |-> 0, group_id |-> 0, sender |-> 0, poll_id |-> 0]
IdleShuffle == [pc |-> "idle", poll_id |-> 0, sender |-> 0, users |-> << >>]

BotIdle ==
    /\ new_h = [h \in 1..MaxNewHandlers |-> IdleNew]
    /\ shuffle_h = [h \in 1..MaxShuffleHandlers |-> IdleShuffle]
    /\ polls_sent = 0

GenIdle ==
    gen_items = << >> /\ gen_order = << >> /\ gen_result = {} /\ gen_pc = "idle"

\* a store driven through its public methods; no handler reads the flag
Init ==
    /\ backend \in {"memory", "sqlite"}
    /\ disable_restrictions = FALSE
    /\ StoreInit
    /\ StoreSchema
    /\ NoPickle
    /\ NoSide
    /\ BotIdle
    /\ GenIdle

\* the lists a caller may hand to shuffle_pair before save_pairings
RECURSIVE ListsUpTo(_, _)
ListsUpTo(S, n) ==
    IF n = 0 THEN {<< >>}
    ELSE LET shorter == ListsUpTo(S, n - 1)
         IN  shorter \cup {Append(l, x) : l \in {m \in shorter : Len(m) = n - 1}, x \in S}

PairingInputs == {ShufflePair(l) : l \in ListsUpTo(Users, MaxListLen)}

Step == steps < MaxSteps /\ steps' = steps + 1

\* Identifiers are opaque: the code compares them for equality and nothing
\* else. A run is therefore explored under one naming only: a call may use
\* any identifier the store already holds, and identifiers new to the store
\* are the smallest unused ones. Every other run is such a run with its
\* identifiers renamed.
InOrder(known, used) ==
    \A x \in used \ known : \A y \in 1..(x - 1) : y \in known \cup used

StoredGames ==
    UNION {group_games[g] : g \in GroupIds} \cup {kv[1] : kv \in polls}
        \cup {Game(r.name, r.group_id) : r \in game}
KnownNames == {g.name : g \in StoredGames}
KnownGroups == {g.group_id : g \in StoredGames}
KnownPolls ==
    {kv[2] : kv \in polls} \cup {r.poll_id : r \in game}
        \cup {r.poll_id : r \in pairing}
        \cup {pu[1] : pu \in {q \in PollIds \X Users : participant[q] > 0}}
        \cup {r.poll_id : r \in wishlist} \cup {r.wishlist_id : r \in wishlist_item}
KnownUsers ==
    UNION {game_users[g] : g \in Games}
        \cup {u \in Users : user_games[u] # {}}
        \cup ({leaders[g] : g \in Games} \ {NoLeader})
        \cup UNION {Keys(pairings[g].map) \cup Values(pairings[g].map) : g \in Games}
        \cup {r.leader_id : r \in game}
        \cup {pu[2] : pu \in {q \in PollIds \X Users : participant[q] > 0}}
        \cup {r.santa_id : r \in pairing} \cup {r.recipient_id : r \in pairing}
        \cup {r.user_id : r \in wishlist_item}

\* the identifiers a call may use
UsableNames == LET known == KnownNames IN {x \in Names : InOrder(known, {x})}
UsableGroups == LET known == KnownGroups IN {x \in GroupIds : InOrder(known, {x})}
UsablePolls == LET known == KnownPolls IN {x \in PollIds : InOrder(known, {x})}
UsableUsers == LET known == KnownUsers IN {x \in Users : InOrder(known, {x})}
UsablePairings ==
    LET known == KnownUsers
    IN  {x \in PairingInputs : InOrder(known, Keys(x) \cup Values(x))}

CreateGame ==
    /\ Step
    /\ \E name \in UsableNames, group_id \in UsableGroups,
          poll_id \in UsablePolls, leader_id \in UsableUsers :
            create_game(name, group_id, poll_id, leader_id)
    /\ UNCHANGED <<cfgVars, botVars, genVars, wishVars, schemaVars, pickleVars, sideVars>>

AddUserToGame ==
    /\ Step
    /\ \E user_id \in UsableUsers, poll_id \in UsablePolls :
            add_user_to_game(user_id, poll_id)
    /\ UNCHANGED <<cfgVars, botVars, genVars, wishVars, schemaVars, pickleVars, sideVars>>

RemoveUserFromGame ==
    /\ Step
    /\ \E user_id \in UsableUsers, poll_id \in UsablePolls :
            remove_user_from_game(user_id, poll_id)
    /\ UNCHANGED <<cfgVars, botVars, genVars, wishVars, schemaVars, pickleVars, sideVars>>

SavePairings ==
    /\ Step
    /\ \E poll_id \in UsablePolls, prs \in UsablePairings :
            save_pairings(poll_id, prs)
    /\ UNCHANGED <<cfgVars, botVars, genVars, wishVars, schemaVars, pickleVars, sideVars>>

GetPairings ==
    /\ Step
    /\ \E user_id \in UsableUsers : get_pairings(user_id)
    /\ UNCHANGED <<cfgVars, botVars, genVars, wishVars, schemaVars, pickleVars, sideVars>>

Next ==
    \/ CreateGame
    \/ AddUserToGame
    \/ RemoveUserFromGame
    \/ SavePairings
    \/ GetPairings

Spec == Init /\ [][Next]_vars

\* ------------------------------------------- the two stores side by side
\* A MemoryStore and a SqliteStore receive the same calls: each call is made
\* on the MemoryStore first and then, with the same arguments, on the
\* SqliteStore. pair.mem_exc keeps the exception of the first while `last`
\* takes that of the second.
Args(name, group_id, poll_id, user_id, prs) ==
    [name |-> name, group_id |-> group_id, poll_id |-> poll_id,
     user_id |-> user_id, prs |-> prs]

PairMemory(op, args) ==
    /\ pair.turn = "memory"
    /\ Step
    /\ pair' = [turn |-> "sqlite", op |-> op, args |-> args, mem_exc |-> last'.exc]
    /\ UNCHANGED <<cfgVars, sqlVars, botVars, genVars, wishVars, schemaVars,
                   pickleVars, ref_returned, joined>>

PairCreateGame ==
    \E name \in UsableNames, group_id \in UsableGroups,
       poll_id \in UsablePolls, leader_id \in UsableUsers :
        /\ MemCreateGame(name, group_id, poll_id, leader_id)
        /\ PairMemory("create_game", Args(name, group_id, poll_id, leader_id, {}))

PairAddUserToGame ==
    \E user_id \in UsableUsers, poll_id \in UsablePolls :
        /\ MemAddUserToGame(user_id, poll_id)
        /\ PairMemory("add_user_to_game", Args(0, 0, poll_id, user_id, {}))

PairRemoveUserFromGame ==
    \E user_id \in UsableUsers, poll_id \in UsablePolls :
        /\ MemRemoveUserFromGame(user_id, poll_id)
        /\ PairMemory("remove_user_from_game", Args(0, 0, poll_id, user_id, {}))

PairSavePairings ==
    \E poll_id \in UsablePolls, prs \in UsablePairings :
        /\ MemSavePairings(poll_id, prs)
        /\ PairMemory("save_pairings", Args(0, 0, poll_id, 0, prs))

PairGetPairings ==
    \E user_id \in UsableUsers :
        /\ MemGetPairings(user_id)
        /\ PairMemory("get_pairings", Args(0, 0, 0, user_id, {}))

\* the call in progress, on the SqliteStore
PairSqlite ==
    /\ pair.turn = "sqlite"
    /\ LET a == pair.args
       IN  CASE pair.op = "create_game" ->
                    SqlCreateGame(a.name, a.group_id, a.poll_id, a.user_id)
             [] pair.op = "add_user_to_game" -> SqlAddUserToGame(a.user_id, a.poll_id)
             [] pair.op = "remove_user_from_game" ->
                    SqlRemoveUserFromGame(a.user_id, a.poll_id)
             [] pair.op = "save_pairings" -> SqlSavePairings(a.poll_id, a.prs)
             [] pair.op = "get_pairings" -> SqlGetPairings(a.user_id)
    /\ pair' = [pair EXCEPT !.turn = "memory"]
    /\ UNCHANGED <<cfgVars, memVars, steps, botVars, genVars, wishVars,
                   schemaVars, pickleVars, ref_returned, joined>>

\* both stores constructed, on a new database file
PairInit ==
    /\ backend = "sqlite"
    /\ disable_restrictions = FALSE
    /\ StoreInit
    /\ StoreSchema
    /\ NoPickle
    /\ NoSide
    /\ BotIdle
    /\ GenIdle

PairNext ==
    \/ PairCreateGame
    \/ PairAddUserToGame
    \/ PairRemoveUserFromGame
    \/ PairSavePairings
    \/ PairGetPairings
    \/ PairSqlite

PairSpec == PairInit /\ [][PairNext]_vars

\* ------------------------------------------------ the snapshot backend
\* PickleStore.create at the start of the process. A store object comes out
\* of PickleStore(path) when there is no file and of pickle.load(f) when
\* there is one; pickle.load of a file cut short raises EOFError or
\* UnpicklingError.
PickleCreate ==
    /\ proc.pc \in {"down", "exited"}
    /\ proc.starts < MaxStarts
    /\ LET exc == IF snapshot.state = "truncated" THEN "UnpicklingError"
                  ELSE IF ~Instantiable THEN "TypeError"
                  ELSE ""
       IN  /\ last' = Call("create", exc)
           /\ proc' = [pc |-> IF exc = "" THEN "running" ELSE "failed",
                       starts |-> proc.starts + 1, pickles |-> 0,
                       ended |-> proc.ended]
           /\ IF exc = "" THEN Loaded(snapshot.fields) ELSE UNCHANGED memVars
    /\ UNCHANGED <<cfgVars, sqlVars, steps, botVars, genVars, wishVars,
                   schemaVars, sideVars, supplied, snapshot>>

\* the process ended on the exception of create; it can be started again
PickleRestart ==
    /\ proc.pc = "failed"
    /\ proc' = [proc EXCEPT !.pc = "down"]
    /\ UNCHANGED <<cfgVars, storeVars, last, steps, botVars, genVars, wishVars,
                   schemaVars, sideVars, supplied, snapshot>>

\* pickle(): open(path, "wb") creates the file or empties it
PickleOpen ==
    /\ proc.pc = "running"
    /\ proc.pickles < MaxPickles
    /\ snapshot' = Truncated
    /\ proc' = [proc EXCEPT !.pc = "pickling", !.pickles = proc.pickles + 1]
    /\ UNCHANGED <<cfgVars, storeVars, last, steps, botVars, genVars, wishVars,
                   schemaVars, sideVars, supplied>>

\* pickle(): pickle.dump(self, f) and the close at the end of the with block
PickleDump ==
    /\ proc.pc = "pickling"
    /\ snapshot' = Complete(Dumped)
    /\ proc' = [proc EXCEPT !.pc = "running"]
    /\ last' = Call("pickle", "")
    /\ UNCHANGED <<cfgVars, storeVars, steps, botVars, genVars, wishVars,
                   schemaVars, sideVars, supplied>>

\* a handler for the exception of run_polling that leaves without the
\* snapshot
AfterPollingExceptionExits(how) == IF how = "exception" THEN "exited" ELSE "finally"

\* try: application.run_polling(...) except Exception: ... finally: the
\* finally block is entered when run_polling returns and when it raises
AfterPolling(how) == "finally"

\* run_polling ends: it returns after a stop signal, or raises. `ended`
\* keeps how the run ended; the store object stays as it is.
PollingEnds ==
    /\ proc.pc = "running"
    /\ \E how \in {"return", "exception"} :
          /\ proc' = [proc EXCEPT !.pc = AfterPolling(how), !.ended = how]
          /\ last' = Call("run_polling", IF how = "exception" THEN "Exception" ELSE "")
    /\ UNCHANGED <<cfgVars, storeVars, steps, botVars, genVars, wishVars,
                   schemaVars, sideVars, supplied, snapshot>>

\* finally: asyncio.run(pickle_store.pickle()), up to open(path, "wb")
FinalPickleOpen ==
    /\ proc.pc = "finally"
    /\ snapshot' = Truncated
    /\ proc' = [proc EXCEPT !.pc = "final_pickling"]
    /\ UNCHANGED <<cfgVars, storeVars, last, steps, botVars, genVars, wishVars,
                   schemaVars, sideVars, supplied>>

\* pickle.dump(self, f) of the final pickle(), after which the process ends.
\* The fields stay what they were when the process ended, for comparison
\* with what the next process loads.
FinalPickleDump ==
    /\ proc.pc = "final_pickling"
    /\ snapshot' = Complete(Dumped)
    /\ proc' = [proc EXCEPT !.pc = "exited"]
    /\ last' = Call("pickle", "")
    /\ UNCHANGED <<cfgVars, storeVars, steps, botVars, genVars, wishVars,
                   schemaVars, sideVars, supplied>>

\* the process is killed: the store object is gone, the file stays as it is
PickleCrash ==
    /\ proc.pc \in {"running", "pickling", "finally", "final_pickling"}
    /\ proc' = [proc EXCEPT !.pc = "down", !.ended = "killed"]
    /\ Loaded(EmptyStore)
    /\ UNCHANGED <<cfgVars, sqlVars, last, steps, botVars, genVars, wishVars,
                   schemaVars, sideVars, supplied, snapshot>>

\* main.py --store pickle on a machine without a snapshot file. PickleStore
\* inherits every store method from MemoryStore. The store class is the one
\* shipped, or one that supplies the abstract methods PickleStore leaves out.
PickleInit ==
    /\ backend = "memory"
    /\ disable_restrictions = FALSE
    /\ StoreInit
    /\ StoreSchema
    /\ BotIdle
    /\ GenIdle
    /\ supplied \in {{}, StoreAbstractMethods \ PickleStoreMethods}
    /\ snapshot = NoFile
    /\ proc = [pc |-> "down", starts |-> 0, pickles |-> 0, ended |-> ""]
    /\ NoSide

PickleNext ==
    \/ PickleCreate
    \/ PickleRestart
    \/ proc.pc = "running" /\ CreateGame
    \/ proc.pc = "running" /\ AddUserToGame
    \/ proc.pc = "running" /\ SavePairings
    \/ PickleOpen
    \/ PickleDump
    \/ PollingEnds
    \/ FinalPickleOpen
    \/ FinalPickleDump
    \/ PickleCrash

PickleSpec == PickleInit /\ [][PickleNext]_vars

\* ------------------------------------------------ wishlist-level runs
\* Store.get_wishlist_id: MemoryStore inherits the body of WishlistMixin,
\* which returns None
get_wishlist_id(message_id) ==
    IF backend = "sqlite" THEN SqlGetWishlistId(message_id) ELSE None

\* Store.get_user_reference: MemoryStore has no override, the inherited body
\* returns None
get_user_reference(user_id) ==
    IF backend = "sqlite" THEN SqlGetUserReference(user_id) ELSE None

\* SqliteStore driven through its wishlist and user-reference methods
WishInit ==
    /\ backend = "sqlite"
    /\ disable_restrictions = FALSE
    /\ StoreInit
    /\ StoreSchema
    /\ NoPickle
    /\ NoSide
    /\ BotIdle
    /\ GenIdle

CreateWishlist ==
    /\ Step
    /\ \E poll_id \in PollIds, message_id \in MessageIds :
            SqlCreateWishlist(poll_id, message_id)
    /\ UNCHANGED <<cfgVars, storeVars, botVars, genVars, schemaVars, pickleVars, sideVars>>

UpdateWishlist ==
    /\ Step
    /\ \E poll_id \in PollIds, user_id \in Users, description \in Descriptions :
            SqlUpdateWishlist(poll_id, user_id, description)
    /\ UNCHANGED <<cfgVars, storeVars, botVars, genVars, schemaVars, pickleVars, sideVars>>

SaveUserReference ==
    /\ Step
    /\ \E user_id \in Users, reference \in References :
            SqlSaveUserReference(user_id, reference)
    /\ UNCHANGED <<cfgVars, storeVars, botVars, genVars, schemaVars, pickleVars, sideVars>>

WishNext ==
    \/ CreateWishlist
    \/ UpdateWishlist
    \/ SaveUserReference

WishSpec == WishInit /\ [][WishNext]_vars

\* --------------------------------------------- the user reference cache in use
\* utils.py fmt_name: "@" and the username when the user has one, otherwise
\* a link that carries the full name and the user's id. Telegram gives no
\* two users the same username; user u has the username u or none, and the
\* full name u.
FmtName(user_id, has_username) ==
    IF has_username THEN <<"@", user_id>>
    ELSE <<"[", user_id, "](tg://user?id=", user_id, ")">>

\* update.message.chat.id: the sender's id in a private chat, the id of the
\* group (a negative number) in a group chat
PrivateChat(user_id) == user_id
GroupChat(group_id) == 0 - group_id
ChatIds(sender) == {PrivateChat(sender)} \cup {GroupChat(g) : g \in GroupIds}

\* save_user: save_user_reference(update.message.chat.id, reference)
SaveUserKey(sender, chat_id) == chat_id

\* the coroutine object a call of an async method gives when it is not awaited
Coroutine(method, arg) == [kind |-> "coroutine", method |-> method, arg |-> arg]

\* the save_user wrapper of a handler, for an update with a message
SaveUser ==
    /\ Step
    /\ \E sender \in Users, has_username \in BOOLEAN :
          \E chat_id \in ChatIds(sender) :
             SqlSaveUserReference(SaveUserKey(sender, chat_id),
                                  FmtName(sender, has_username))
    /\ UNCHANGED <<cfgVars, storeVars, botVars, genVars, schemaVars, pickleVars, sideVars>>

\* __get_user_reference when get_chat answers
GetUserReferenceLive ==
    /\ Step
    /\ \E user_id \in Users, has_username \in BOOLEAN :
          /\ SqlSaveUserReference(user_id, FmtName(user_id, has_username))
          /\ ref_returned' = Ret(FmtName(user_id, has_username))
    /\ UNCHANGED <<cfgVars, storeVars, botVars, genVars, schemaVars, pickleVars, pair, joined>>

\* __get_user_reference when get_chat raises BadRequest:
\* reference = self.__store.get_user_reference(user_id), without await
GetUserReferenceFallback ==
    /\ Step
    /\ \E user_id \in Users :
          ref_returned' = Coroutine("get_user_reference", user_id)
    /\ last' = Call("__get_user_reference", "")
    /\ UNCHANGED <<cfgVars, storeVars, wishVars, botVars, genVars, schemaVars, pickleVars, pair, joined>>

RefNext ==
    \/ SaveUser
    \/ GetUserReferenceLive
    \/ GetUserReferenceFallback

RefSpec == WishInit /\ [][RefNext]_vars

\* -------------------------------------------- games and their wishlists
\* A store driven through the methods that are addressed to one poll id;
\* the wishlist methods exist on SqliteStore only.
UsableMessages ==
    LET known == {r.message_id : r \in wishlist}
    IN  {x \in MessageIds : InOrder(known, {x})}
\* a text some item has, or one no item has
UsableDescriptions ==
    LET known == {r.description : r \in wishlist_item}
    IN  known \cup (IF Descriptions \subseteq known THEN {}
                    ELSE {CHOOSE d \in Descriptions : d \notin known})

FrameCreateWishlist ==
    /\ backend = "sqlite"
    /\ Step
    /\ \E poll_id \in UsablePolls, message_id \in UsableMessages :
            SqlCreateWishlist(poll_id, message_id)
    /\ UNCHANGED <<cfgVars, storeVars, botVars, genVars, schemaVars, pickleVars, sideVars>>

FrameUpdateWishlist ==
    /\ backend = "sqlite"
    /\ Step
    /\ \E poll_id \in UsablePolls, user_id \in UsableUsers,
          description \in UsableDescriptions :
            SqlUpdateWishlist(poll_id, user_id, description)
    /\ UNCHANGED <<cfgVars, storeVars, botVars, genVars, schemaVars, pickleVars, sideVars>>

MaxFrameSteps == 3

FrameNext ==
    /\ steps < MaxFrameSteps
    /\ \/ CreateGame
       \/ AddUserToGame
       \/ RemoveUserFromGame
       \/ SavePairings
       \/ FrameCreateWishlist
       \/ FrameUpdateWishlist

FrameSpec == Init /\ [][FrameNext]_vars

\* ------------------------------------------------- set_up_schema on its own
\* a database file left at any version by an earlier release
SchemaInit ==
    /\ backend = "sqlite"
    /\ disable_restrictions = FALSE
    /\ StoreInit
    /\ NoPickle
    /\ NoSide
    /\ BotIdle
    /\ GenIdle
    /\ user_version \in 0..Len(UpgradeFunctions)
    /\ tables = TablesAt(user_version)
    /\ txn = NoTxn
    /\ sch = SchemaIdle

SchemaNext ==
    \/ SetUpSchemaRead /\ UNCHANGED <<cfgVars, storeVars, last, steps, botVars, genVars, wishVars, pickleVars, sideVars>>
    \/ UpgradeStatement /\ UNCHANGED <<cfgVars, storeVars, last, steps, botVars, genVars, wishVars, pickleVars, sideVars>>
    \/ UpgradeCommit /\ UNCHANGED <<cfgVars, storeVars, last, steps, botVars, genVars, wishVars, pickleVars, sideVars>>
    \/ SetUpSchemaReturn /\ UNCHANGED <<cfgVars, storeVars, last, steps, botVars, genVars, wishVars, pickleVars, sideVars>>
    \/ SchemaCrash /\ UNCHANGED <<cfgVars, storeVars, last, steps, botVars, genVars, wishVars, pickleVars, sideVars>>

SchemaSpec == SchemaInit /\ [][SchemaNext]_vars

\* ------------------------------------------------- shuffle_pair on its own
\* One call of shuffle_pair(items): items.copy() leaves the argument as it
\* is, random.shuffle reorders the copy, the comprehension builds the dict.
GenInit ==
    /\ backend = "memory"
    /\ disable_restrictions = FALSE
    /\ StoreInit
    /\ StoreSchema
    /\ NoPickle
    /\ NoSide
    /\ BotIdle
    /\ gen_items \in ListsUpTo(1..MaxItems, MaxItems)
    /\ gen_order = << >>
    /\ gen_result = {}
    /\ gen_pc = "call"

ShufflePairCall ==
    /\ gen_pc = "call"
    /\ \E shuffled \in Shuffles(gen_items) :
          /\ gen_order' = shuffled
          /\ gen_result' = ShufflePair(shuffled)
    /\ gen_pc' = "returned"
    /\ UNCHANGED <<gen_items, cfgVars, storeVars, last, steps, botVars, wishVars, schemaVars, pickleVars, sideVars>>

GenNext == ShufflePairCall

GenSpec == GenInit /\ [][GenNext]_vars

\* --------------------------------------------------------------- SantaBot
\* A handler is a coroutine: it runs until it awaits, and another handler
\* may run before it resumes. Each action below is the stretch of one
\* handler from one store call to the next. Replies and notifications sent
\* to the chat change no state of the store and are left out.

BotStep == steps < MaxBotSteps /\ steps' = steps + 1

\* the handler ends: by return, or by an exception raised out of it
NewDone(h) == new_h' = [new_h EXCEPT ![h] = IdleNew]
ShuffleDone(h) == shuffle_h' = [shuffle_h EXCEPT ![h] = IdleShuffle]

\* a new handler takes the first free slot
FreeNew(h) == new_h[h].pc = "idle" /\ \A k \in 1..(h - 1) : new_h[k].pc # "idle"
FreeShuffle(h) ==
    shuffle_h[h].pc = "idle" /\ \A k \in 1..(h - 1) : shuffle_h[k].pc # "idle"

HeldNames == {new_h[h].name : h \in 1..MaxNewHandlers} \ {0}
HeldGroups == {new_h[h].group_id : h \in 1..MaxNewHandlers} \ {0}
HeldUsers ==
    ({new_h[h].sender : h \in 1..MaxNewHandlers}
        \cup {shuffle_h[h].sender : h \in 1..MaxShuffleHandlers}
        \cup UNION {{shuffle_h[h].users[i] : i \in 1..Len(shuffle_h[h].users)} :
                       h \in 1..MaxShuffleHandlers}) \ {0}
BotNames == LET known == KnownNames \cup HeldNames IN {x \in Names : InOrder(known, {x})}
BotGroups == LET known == KnownGroups \cup HeldGroups IN {x \in GroupIds : InOrder(known, {x})}
BotUsers == LET known == KnownUsers \cup HeldUsers IN {x \in Users : InOrder(known, {x})}

\* _handle_new from "/new <name>" in a group to the poll: game_exists decides
\* between the "already exists" reply and send_poll, for which Telegram
\* creates the poll and gives it an id no other poll has. send_poll reads
\* and writes nothing of the store, so it is taken together with the check
\* before it.
NewSendPoll(h) ==
    /\ BotStep
    /\ FreeNew(h)
    /\ \E name \in BotNames, group_id \in BotGroups, sender \in BotUsers :
          IF game_exists(name, group_id)
          THEN UNCHANGED <<new_h, polls_sent>>
          ELSE /\ polls_sent + 1 \in PollIds
               /\ polls_sent' = polls_sent + 1
               /\ new_h' = [new_h EXCEPT ![h] =
                              [pc |-> "create_game", name |-> name,
                               group_id |-> group_id, sender |-> sender,
                               poll_id |-> polls_sent + 1]]
    /\ UNCHANGED <<cfgVars, storeVars, last, shuffle_h, genVars, wishVars, schemaVars, pickleVars, sideVars>>

\* the last statement of _handle_new
NewCreateGame(h) ==
    /\ BotStep
    /\ new_h[h].pc = "create_game"
    /\ create_game(new_h[h].name, new_h[h].group_id, new_h[h].poll_id, new_h[h].sender)
    /\ NewDone(h)
    /\ UNCHANGED <<cfgVars, shuffle_h, polls_sent, genVars, wishVars, schemaVars, pickleVars, sideVars>>

\* _handle_poll_answer: a vote on a poll the bot sent; option 0 is JOIN_STRING
PollAnswer ==
    /\ BotStep
    /\ \E user_id \in BotUsers, poll_id \in 1..polls_sent, joins \in BOOLEAN :
          IF joins THEN add_user_to_game(user_id, poll_id)
          ELSE remove_user_from_game(user_id, poll_id)
    /\ UNCHANGED <<cfgVars, botVars, genVars, wishVars, schemaVars, pickleVars, sideVars>>

\* a comparison that lets every sender through
IsLeaderAnyone(leader_id, sender) == TRUE

\* the negation of: if leader_id != update.message.from_user.id
IsLeader(leader_id, sender) == leader_id = sender

\* _handle_shuffle up to get_leader: "/shuffle" in reply to a poll of the bot.
\* get_leader raises for a poll that has no game; the handler ends there.
\* After it returns, the handler awaits the leader's display name and then
\* compares the leader with the sender.
ShuffleGetLeader(h) ==
    /\ BotStep
    /\ FreeShuffle(h)
    /\ \E poll_id \in 1..polls_sent, sender \in BotUsers :
          LET leader == get_leader(poll_id)
          IN  IF leader.kind = "raise"
              THEN UNCHANGED shuffle_h
              ELSE IF IsLeader(leader.val, sender)
              THEN shuffle_h' = [shuffle_h EXCEPT ![h] =
                                   [pc |-> "get_users", poll_id |-> poll_id,
                                    sender |-> sender, users |-> << >>]]
              \* the reply is all that is left: it reads the leader's name
              \* the handler holds, not the poll or the sender
              ELSE shuffle_h' = [shuffle_h EXCEPT ![h] =
                                   [IdleShuffle EXCEPT !.pc = "reply_not_leader"]]
    /\ UNCHANGED <<cfgVars, storeVars, last, new_h, polls_sent, genVars, wishVars, schemaVars, pickleVars, sideVars>>

\* await update.message.reply_markdown_v2("Only the leader ..."); return
ShuffleReplyNotLeader(h) ==
    /\ BotStep
    /\ shuffle_h[h].pc = "reply_not_leader"
    /\ ShuffleDone(h)
    /\ UNCHANGED <<cfgVars, storeVars, last, new_h, polls_sent, genVars, wishVars, schemaVars, pickleVars, sideVars>>

\* if not self.__disable_restrictions and len(users) < 4
TooFewPlayers(users) == ~disable_restrictions /\ Len(users) < MinPlayers

\* get_game and get_users, then the check of the number of players. The
\* Game that get_game returns is never changed by any call, so the two reads
\* are taken together.
ShuffleGetUsers(h) ==
    /\ BotStep
    /\ shuffle_h[h].pc = "get_users"
    /\ LET users == get_users(shuffle_h[h].poll_id)
       IN  IF users.kind = "raise"
           THEN ShuffleDone(h)
           ELSE shuffle_h' = [shuffle_h EXCEPT
                                ![h].pc = IF TooFewPlayers(users.val)
                                          THEN "reply_too_few"
                                          ELSE "save_pairings",
                                ![h].users = users.val]
    /\ UNCHANGED <<cfgVars, storeVars, last, new_h, polls_sent, genVars, wishVars, schemaVars, pickleVars, sideVars>>

\* await update.message.reply_text("You need at least 4 players ..."); return
ShuffleReplyTooFew(h) ==
    /\ BotStep
    /\ shuffle_h[h].pc = "reply_too_few"
    /\ ShuffleDone(h)
    /\ UNCHANGED <<cfgVars, storeVars, last, new_h, polls_sent, genVars, wishVars, schemaVars, pickleVars, sideVars>>

\* pairings = shuffle_pair(users); await self.__store.save_pairings(...)
ShuffleSavePairings(h) ==
    /\ BotStep
    /\ shuffle_h[h].pc = "save_pairings"
    /\ \E shuffled \in Shuffles(shuffle_h[h].users) :
          save_pairings(shuffle_h[h].poll_id, ShufflePair(shuffled))
    /\ ShuffleDone(h)
    /\ UNCHANGED <<cfgVars, new_h, polls_sent, genVars, wishVars, schemaVars, pickleVars, sideVars>>

\* _handle_status in a private chat: get_pairings for the sender
StatusInPrivate ==
    /\ BotStep
    /\ \E user_id \in BotUsers : get_pairings(user_id)
    /\ UNCHANGED <<cfgVars, botVars, genVars, wishVars, schemaVars, pickleVars, sideVars>>

\* main.py: the store and the --no-restriction flag the bot is started with
BotInit ==
    /\ backend \in {"memory", "sqlite"}
    /\ disable_restrictions \in BOOLEAN
    /\ StoreInit
    /\ StoreSchema
    /\ NoPickle
    /\ NoSide
    /\ BotIdle
    /\ GenIdle

BotNext ==
    \/ \E h \in 1..MaxNewHandlers : NewSendPoll(h)
    \/ \E h \in 1..MaxNewHandlers : NewCreateGame(h)
    \/ PollAnswer
    \/ \E h \in 1..MaxShuffleHandlers : ShuffleGetLeader(h)
    \/ \E h \in 1..MaxShuffleHandlers : ShuffleReplyNotLeader(h)
    \/ \E h \in 1..MaxShuffleHandlers : ShuffleGetUsers(h)
    \/ \E h \in 1..MaxShuffleHandlers : ShuffleReplyTooFew(h)
    \/ \E h \in 1..MaxShuffleHandlers : ShuffleSavePairings(h)
    \/ StatusInPrivate

BotSpec == BotInit /\ [][BotNext]_vars

\* ------------------------------------------------ /new and the votes on its poll
\* _handle_poll_answer with the votes written down as the voters left them:
\* `joined` holds the pairs of a user and a poll whose latest answer selects
\* option 0.
VotePollAnswer ==
    /\ BotStep
    /\ \E user_id \in BotUsers, poll_id \in 1..polls_sent, joins \in BOOLEAN :
          IF joins
          THEN /\ add_user_to_game(user_id, poll_id)
               /\ joined' = joined \cup {<<user_id, poll_id>>}
          ELSE /\ remove_user_from_game(user_id, poll_id)
               /\ joined' = joined \ {<<user_id, poll_id>>}
    /\ UNCHANGED <<cfgVars, botVars, genVars, wishVars, schemaVars, pickleVars, pair, ref_returned>>

VoteNext ==
    \/ \E h \in 1..MaxNewHandlers : NewSendPoll(h)
    \/ \E h \in 1..MaxNewHandlers : NewCreateGame(h)
    \/ VotePollAnswer

VoteSpec == BotInit /\ [][VoteNext]_vars

\* ------------------------------------------------------------- properties
Elems(list) == {list[i] : i \in 1..Len(list)}
IsValue(r) == r.kind = "value"
\* the participant set of a poll, as get_users returns it
Participants(poll_id) == Elems(get_users(poll_id).val)

\* C1: for every list of n >= 2 distinct participants, the dict shuffle_pair
\* returns has the participant set as its key set and as its value set, has
\* one entry per participant (a bijection), and maps no participant to
\* themselves, whatever order the shuffle produced.
DistinctItems(list) == \A i, j \in 1..Len(list) : list[i] = list[j] => i = j
C1_ShufflePairDerangement ==
    (gen_pc = "returned" /\ Len(gen_items) >= 2 /\ DistinctItems(gen_items)) =>
        /\ IsDict(gen_result)
        /\ Keys(gen_result) = Elems(gen_items)
        /\ Values(gen_result) = Elems(gen_items)
        /\ Cardinality(gen_result) = Len(gen_items)
        /\ \A kv \in gen_result : kv[1] # kv[2]

\* shuffle_pair has returned for three or more distinct participants, after
\* a shuffle that changed their order
C1_Witness ==
    /\ gen_pc = "returned"
    /\ Len(gen_items) >= 3
    /\ DistinctItems(gen_items)
    /\ gen_order # gen_items

\* C2: save_pairings for an existing game with a pairing whose key set or
\* value set differs from the game's participant set raises, and
\* get_game_pairings for the game returns afterwards what it returned before.
C2_MismatchedSaveFails ==
    [][\A poll_id \in PollIds, prs \in PairingInputs :
          (/\ save_pairings(poll_id, prs)
           /\ IsValue(get_game(poll_id))
           /\ (Keys(prs) # Participants(poll_id) \/ Values(prs) # Participants(poll_id)))
          => (/\ last'.exc # ""
              /\ get_game_pairings(poll_id)' = get_game_pairings(poll_id))]_vars

C4_PairingOverParticipants ==
    \A poll_id \in PollIds :
        (IsValue(get_game(poll_id)) /\ IsValue(get_game_pairings(poll_id))) =>
            /\ Keys(get_game_pairings(poll_id).val) = Participants(poll_id)
            /\ Values(get_game_pairings(poll_id).val) = Participants(poll_id)

\* C5: create_game for a (name, group) that already has a game raises and
\* changes nothing in the store: the first game keeps its poll id, leader and
\* participants, and a poll id that resolved to no game still resolves to
\* none.
C5_DuplicateCreateFails ==
    [][(/\ last'.op = "create_game"
        /\ \E name \in Names, group_id \in GroupIds, poll_id \in PollIds, leader_id \in Users :
              /\ game_exists(name, group_id)
              /\ create_game(name, group_id, poll_id, leader_id))
       => (/\ last'.exc # ""
           /\ UNCHANGED storeVars
           /\ \A p \in PollIds :
                 /\ get_game(p)' = get_game(p)
                 /\ get_leader(p)' = get_leader(p)
                 /\ get_users(p)' = get_users(p))]_vars

\* create_game has just failed on a (name, group) that has a game: in the
\* in-memory backend on its assert; in the relational backend with every
\* (name, group) taken, so that the insert broke UNIQUE (name, group_id)
C5_Witness ==
    /\ last.op = "create_game"
    /\ \/ backend = "memory" /\ last.exc = "AssertionError"
       \/ /\ backend = "sqlite" /\ last.exc = "IntegrityError"
          /\ \A g \in Games : SqlGameExists(g.name, g.group_id)

\* C6: in every state no two poll ids resolve to games with the same
\* (name, group), also when two /new handlers for one name and group both
\* pass game_exists before either calls create_game; and create_game for a
\* (name, group) that has no game, with a poll id that has none, succeeds and
\* records the game, whatever games the other groups hold.
C6_OneGamePerNameAndGroup ==
    /\ [](\A p1, p2 \in PollIds :
            (/\ IsValue(get_game(p1)) /\ IsValue(get_game(p2))
             /\ get_game(p1).val = get_game(p2).val) => p1 = p2)
    /\ [][\A name \in Names, group_id \in GroupIds, poll_id \in PollIds, leader_id \in Users :
            (/\ last'.op = "create_game"
             /\ ~game_exists(name, group_id)
             /\ ~IsValue(get_game(poll_id))
             /\ create_game(name, group_id, poll_id, leader_id))
            => (/\ last'.exc = ""
                /\ get_game(poll_id)' = Ret(Game(name, group_id)))]_vars

\* two /new handlers for the same name and group have both sent their poll
\* before either created the game; the second create_game has just failed
\* and the game of the first is recorded
C6_Witness ==
    /\ last.op = "create_game" /\ last.exc # ""
    /\ polls_sent = 2
    /\ \A h \in 1..MaxNewHandlers : new_h[h].pc = "idle"
    /\ \E p \in PollIds : IsValue(get_game(p))

C8_AddTwiceIsAddOnce ==
    [][\A user_id \in Users, poll_id \in PollIds :
          /\ (/\ add_user_to_game(user_id, poll_id)
              /\ IsValue(get_game(poll_id))
              /\ user_id \in Participants(poll_id))
             => get_users(poll_id)' = get_users(poll_id)
          /\ (/\ remove_user_from_game(user_id, poll_id)
              /\ IsValue(get_game(poll_id))
              /\ last'.exc = "")
             => user_id \notin Participants(poll_id)']_vars

\* C9: remove_user_from_game for a user who is not a participant of an
\* existing game does not raise, and every query of the store returns
\* afterwards what it returned before.
C9_RemoveNonMemberIsNoOp ==
    [][\A user_id \in Users, poll_id \in PollIds :
          (/\ remove_user_from_game(user_id, poll_id)
           /\ IsValue(get_game(poll_id))
           /\ user_id \notin Participants(poll_id))
          => (/\ last'.exc = ""
              /\ \A p \in PollIds :
                    /\ get_game(p)' = get_game(p)
                    /\ get_leader(p)' = get_leader(p)
                    /\ get_users(p)' = get_users(p)
                    /\ get_game_pairings(p)' = get_game_pairings(p)
              /\ \A u \in Users : get_pairings_result(u)' = get_pairings_result(u))]_vars

\* C10: after a successful save_pairings(poll_id, prs) for an existing game,
\* get_game_pairings returns exactly prs, and it keeps returning the mapping
\* it returns until the next successful save_pairings for the same poll.
C10_LatestPairingReturned ==
    [][\A poll_id \in PollIds :
          /\ \A prs \in PairingInputs :
                (/\ save_pairings(poll_id, prs)
                 /\ IsValue(get_game(poll_id))
                 /\ last'.exc = "")
                => get_game_pairings(poll_id)' = Ret(prs)
          /\ (/\ IsValue(get_game_pairings(poll_id))
              /\ ~(\E prs \in PairingInputs : save_pairings(poll_id, prs) /\ last'.exc = ""))
             => get_game_pairings(poll_id)' = get_game_pairings(poll_id)]_vars

\* C11: in the relational backend no step deletes or changes a pairing row;
\* the rows a step adds all belong to one poll and carry the generation
\* max(existing generation of the poll) + 1 (1 for the first), which is then
\* the largest generation of that poll; only a save_pairings that returned
\* adds rows, and the largest generation of every other poll stays.
C11_GenerationsAppendOnly ==
    [][/\ pairing \subseteq pairing'
       /\ pairing' # pairing =>
             /\ backend = "sqlite"
             /\ last'.op = "save_pairings" /\ last'.exc = ""
             /\ \E poll_id \in PollIds :
                   /\ \A r \in pairing' \ pairing :
                         /\ r.poll_id = poll_id
                         /\ r.reshuffle = SqlMaxReshuffle(poll_id) + 1
                   /\ SqlMaxReshuffle(poll_id)' = SqlMaxReshuffle(poll_id) + 1
                   /\ \A q \in PollIds \ {poll_id} :
                         SqlMaxReshuffle(q)' = SqlMaxReshuffle(q)]_vars

\* a second generation has just been saved for a poll and the rows of the
\* first are still in the table
C11_Witness ==
    /\ backend = "sqlite"
    /\ last.op = "save_pairings" /\ last.exc = ""
    /\ \E poll_id \in PollIds :
          /\ SqlMaxReshuffle(poll_id) = 2
          /\ \E r \in pairing : r.poll_id = poll_id /\ r.reshuffle = 1

\* C12: for an existing game, a successful save_pairings makes
\* get_game_pairings return a mapping, and no other step (create_game,
\* add_user_to_game, remove_user_from_game, get_pairings, a failed
\* save_pairings) turns a None answer of get_game_pairings into a mapping.
C12_NoneIffNeverShuffled ==
    [][\A poll_id \in PollIds :
          IsValue(get_game(poll_id)) =>
             IF \E prs \in PairingInputs :
                   /\ last'.op = "save_pairings" /\ last'.exc = ""
                   /\ save_pairings(poll_id, prs)
             THEN get_game_pairings(poll_id)' # None
             ELSE get_game_pairings(poll_id) = None
                     => get_game_pairings(poll_id)' = None]_vars

\* C13: get_pairings(u) holds one entry (game, recipient) for every existing
\* game whose current pairing has u as a santa, the recipient being the
\* current pairing's value for u, and nothing else.
C13_PairingsOfUser ==
    \A user_id \in Users :
        get_pairings_result(user_id) =
            {<<get_game(p).val, Lookup(get_game_pairings(p).val, user_id)>> :
                p \in {q \in PollIds :
                          /\ IsValue(get_game(q))
                          /\ IsValue(get_game_pairings(q))
                          /\ user_id \in Keys(get_game_pairings(q).val)}}

\* C20: in both backends get_game of a poll id that no stored game has,
\* get_wishlist_id
\* of a message id that no wishlist has and get_user_reference of a user
\* whose reference was never saved return None; none of them raises.
C20_AbsentLookupsReturnNone ==
    /\ \A poll_id \in PollIds :
          (poll_id \notin {kv[2] : kv \in polls} \cup {r.poll_id : r \in game})
             => get_game(poll_id) = None
    /\ \A message_id \in MessageIds :
          (message_id \notin {r.message_id : r \in wishlist})
             => get_wishlist_id(message_id) = None
    /\ \A user_id \in Users :
          (user_id \notin {r.user_id : r \in user})
             => get_user_reference(user_id) = None

\* C14: no shuffle handler gets past the check of the number of players
\* for a game with exactly one participant, and no game's current pairing
\* maps its only santa to themselves. Stated for a bot started without
\* --no-restriction, the configuration in which the check is in force.
C14_SoleUserNeverShuffled ==
    ~disable_restrictions =>
        /\ \A h \in 1..MaxShuffleHandlers :
              shuffle_h[h].pc = "save_pairings"
                 => Cardinality(Elems(shuffle_h[h].users)) # 1
        /\ \A poll_id \in PollIds : \A user_id \in Users :
              get_game_pairings(poll_id) # Ret({<<user_id, user_id>>})

\* C15: update_wishlist(poll, user, text) leaves get_wishlist(poll) with the
\* single entry user -> text in place of whatever entry the user had, keeps
\* the entries of the other users and the wishlists of the other polls, and
\* no other call changes any wishlist.
C15_LastUpsertWins ==
    [][/\ \A poll_id \in PollIds, user_id \in Users, text \in Descriptions :
            (/\ last'.op = "update_wishlist"
             /\ SqlUpdateWishlist(poll_id, user_id, text))
            => /\ SqlGetWishlist(poll_id)' =
                    Ret({kv \in SqlGetWishlist(poll_id).val : kv[1] # user_id}
                            \cup {<<user_id, text>>})
               /\ IsDict(SqlGetWishlist(poll_id).val)'
               /\ Lookup(SqlGetWishlist(poll_id).val, user_id)' = text
               /\ \A q \in PollIds \ {poll_id} :
                        SqlGetWishlist(q)' = SqlGetWishlist(q)
       /\ last'.op # "update_wishlist"
            => \A q \in PollIds : SqlGetWishlist(q)' = SqlGetWishlist(q)]_vars

\* only update_wishlist has been called, more often than there are entries:
\* some upsert met the entry of an earlier one, and a wishlist shows "gloves"
C15_Witness ==
    /\ last.op = "update_wishlist"
    /\ wishlist = {} /\ user = {}
    /\ Cardinality(wishlist_item) < steps
    /\ \E poll_id \in PollIds, user_id \in Users :
          /\ <<user_id, "gloves">> \in SqlGetWishlist(poll_id).val
          /\ \E other \in Users \ {user_id} :
                <<other, "socks">> \in SqlGetWishlist(poll_id).val

\* C16: a create_wishlist(poll, m2) that returns makes m2 resolve to poll and
\* poll to m2, makes the message id the wishlist had before resolve to
\* nothing, and leaves every wishlist's items as they were; one that raises
\* changes nothing; and in every state a message id is held by at most one
\* wishlist, the two lookups agreeing.
C16_RepostMovesMessageId ==
    /\ [][\A poll_id \in PollIds, m2 \in MessageIds :
            (/\ last'.op = "create_wishlist"
             /\ SqlCreateWishlist(poll_id, m2))
            => /\ \A q \in PollIds : SqlGetWishlist(q)' = SqlGetWishlist(q)
               /\ IF last'.exc = ""
                  THEN /\ SqlGetWishlistId(m2)' = Ret(poll_id)
                       /\ SqlGetWishlistMessageId(poll_id)' = Ret(m2)
                       /\ \A m1 \in MessageIds \ {m2} :
                             SqlGetWishlistId(m1) = Ret(poll_id)
                                => SqlGetWishlistId(m1)' = None
                  ELSE UNCHANGED wishVars]_vars
    /\ [](\A m \in MessageIds :
            /\ Cardinality({r \in wishlist : r.message_id = m}) <= 1
            /\ \A poll_id \in PollIds :
                  SqlGetWishlistMessageId(poll_id) = Ret(m)
                     <=> SqlGetWishlistId(m) = Ret(poll_id))

\* the wishlist of a poll with an item has been re-posted: its message id is
\* the second one, and the first resolves to nothing
C16_Witness ==
    /\ last.op = "create_wishlist" /\ last.exc = ""
    /\ \E poll_id \in PollIds :
          /\ SqlGetWishlistMessageId(poll_id) = Ret(2)
          /\ SqlGetWishlistId(1) = None
          /\ SqlGetWishlist(poll_id).val # {}
          /\ Cardinality(wishlist) = 1
          /\ steps >= 3

\* C17: a run of set_up_schema that read version v commits only the step
\* that follows the stored version, each commit adding the step's tables and
\* storing the step's number, written by the last statement of the step; it
\* never raises; when it returns it has applied exactly the steps v+1..3 in
\* increasing order and the stored version is 3, so a run on a database at
\* version 3 applies none.
C17_PendingStepsOnceInOrder ==
    /\ [][/\ sch'.applied # sch.applied /\ sch'.applied # << >>
            => LET k == sch'.applied[Len(sch'.applied)]
               IN  /\ sch'.applied = Append(sch.applied, k)
                   /\ k = user_version + 1
                   /\ user_version' = k
                   /\ tables' = TablesAt(k)
                   /\ txn.stmt = Len(UpgradeSchema(k))
          /\ user_version' # user_version => sch'.applied # sch.applied
          /\ (txn'.version # txn.version /\ txn'.version # << >>)
                => /\ txn'.stmt = Len(UpgradeSchema(Head(sch.pending)))
                   /\ txn'.version = <<Head(sch.pending)>>]_vars
    /\ [](sch.pc # "failed")
    /\ [](sch.pc = "done"
            => /\ user_version = Len(UpgradeFunctions)
               /\ sch.applied = [i \in 1..(Len(UpgradeFunctions) - sch.current_version)
                                    |-> sch.current_version + i])

\* a second run has returned without applying a step, on a database that an
\* earlier run brought to version 3
C17_Witness ==
    /\ sch.pc = "done"
    /\ sch.runs = 2
    /\ sch.current_version = 3
    /\ sch.applied = << >>
    /\ user_version = 3
    /\ tables = TablesAt(3)

\* C18: PickleStore.create on a file that is absent or that a completed
\* pickle() wrote returns a store, with the fields of a new store when the
\* file is absent and with the fields pickle() dumped otherwise, so that
\* every query (all are functions of these fields) answers as it did at the
\* moment of pickle().
C18_SnapshotRoundTrip ==
    [][(/\ last'.op = "create"
        /\ snapshot.state \in {"absent", "complete"}
        /\ PickleCreate)
       => /\ last'.exc = ""
          /\ proc'.pc = "running"
          /\ Dumped' = snapshot.fields]_vars

SameResult(a, b) == a.kind = b.kind /\ (a.kind = "value" => a.val = b.val)

\* C21: whenever the same calls have been made on both stores, the last
\* call has succeeded on both or failed on both, and game_exists, get_leader,
\* get_users (as a set), get_game_pairings and get_pairings answer alike
\* (the reads by poll id compared for the polls that have a game).
C21_BackendsAgree ==
    pair.turn = "memory" =>
        /\ pair.op # "init" => ((pair.mem_exc = "") <=> (last.exc = ""))
        /\ \A name \in Names, group_id \in GroupIds :
              MemGameExists(name, group_id) <=> SqlGameExists(name, group_id)
        /\ \A poll_id \in PollIds :
              (IsValue(MemGetGame(poll_id)) /\ IsValue(SqlGetGame(poll_id)))
              => /\ SameResult(MemGetLeader(poll_id), SqlGetLeader(poll_id))
                 /\ Elems(MemGetUsers(poll_id).val) = Elems(SqlGetUsers(poll_id).val)
                 /\ SameResult(MemGetGamePairings(poll_id), SqlGetGamePairings(poll_id))
        /\ \A user_id \in Users :
              MemGetPairingsResult(user_id) = SqlGetPairingsResult(user_id)


\* what the store answers about one game: its participants, current pairing,
\* leader, wishlist and the message that carries the wishlist
FrameReads(poll_id) ==
    <<get_users(poll_id), get_game_pairings(poll_id), get_leader(poll_id),
      SqlGetWishlist(poll_id), SqlGetWishlistMessageId(poll_id)>>

OtherGamesKept(poll_id) ==
    \A q \in PollIds \ {poll_id} : FrameReads(q)' = FrameReads(q)

C23_NonLeaderNeverShuffles ==
    /\ [](\A h \in 1..MaxShuffleHandlers :
            shuffle_h[h].pc \in {"get_users", "reply_too_few", "save_pairings"}
                => get_leader(shuffle_h[h].poll_id) = Ret(shuffle_h[h].sender))
    /\ [][\A h \in 1..MaxShuffleHandlers :
            (shuffle_h[h] # shuffle_h'[h]
                /\ "reply_not_leader" \in {shuffle_h[h].pc, shuffle_h'[h].pc})
            => /\ UNCHANGED <<memVars, sqlVars>>
               /\ shuffle_h'[h].pc \in {"idle", "reply_not_leader"}]_vars

\* a poll has a pairing, and a /shuffle from someone who is not its leader is
\* at its reply
C23_Witness ==
    \E h \in 1..MaxShuffleHandlers :
        /\ shuffle_h[h].pc = "reply_not_leader"
        /\ \E poll_id \in 1..polls_sent :
              /\ IsValue(get_game_pairings(poll_id))
              /\ get_game_pairings(poll_id) # Ret({})


\* the participant reached from x by following santa -> recipient k times
RECURSIVE Follow(_, _, _)
Follow(d, x, k) == IF k = 0 THEN x ELSE Follow(d, Lookup(d, x), k - 1)

\* C24: for every list of n >= 1 distinct participants the dict shuffle_pair
\* returns is one cycle of length n: following santa -> recipient from any
\* participant visits all n participants and is back at the start after n
\* steps and not before; the list passed in is not changed by the call.
C24_SingleCycle ==
    /\ []((gen_pc = "returned" /\ Len(gen_items) >= 1 /\ DistinctItems(gen_items)) =>
            LET n == Len(gen_items)
            IN  /\ IsDict(gen_result)
                /\ Keys(gen_result) = Elems(gen_items)
                /\ \A x \in Elems(gen_items) :
                      /\ {Follow(gen_result, x, k) : k \in 0..(n - 1)} = Elems(gen_items)
                      /\ Follow(gen_result, x, n) = x
                      /\ \A k \in 1..(n - 1) : Follow(gen_result, x, k) # x)
    /\ [][gen_items' = gen_items]_vars

\* shuffle_pair has returned for four distinct participants
C24_Witness ==
    /\ gen_pc = "returned"
    /\ Len(gen_items) = 4
    /\ DistinctItems(gen_items)
    /\ gen_order # gen_items
    /\ Cardinality(gen_result) = 4


\* C25: with restrictions enabled, no shuffle handler goes on to shuffle_pair
\* and save_pairings with fewer than 4 distinct users, and every current
\* pairing is a mapping over at least 4 distinct users that sends no user to
\* themselves, in both backends.
C25_PairingsOverFourPlayers ==
    ~disable_restrictions =>
        /\ \A h \in 1..MaxShuffleHandlers :
              shuffle_h[h].pc = "save_pairings"
                 => Cardinality(Elems(shuffle_h[h].users)) >= MinPlayers
        /\ \A poll_id \in PollIds :
              LET prs == get_game_pairings(poll_id)
              IN  (IsValue(prs) /\ prs.val # {}) =>
                      /\ Cardinality(Keys(prs.val)) >= MinPlayers
                      /\ \A kv \in prs.val : kv[1] # kv[2]


\* C26: a poll for which get_game_pairings has returned a pairing keeps
\* having one: no later call makes the read return None or raise, and the
\* answer changes only in the one step of a save_pairings that returned, to
\* the complete mapping that save_pairings was given; a read between two
\* calls sees the old mapping or the new one.
C26_PairingReplacedInOneStep ==
    [][\A poll_id \in PollIds :
          IsValue(get_game_pairings(poll_id)) =>
             /\ IsValue(get_game_pairings(poll_id)')
             /\ get_game_pairings(poll_id)' # get_game_pairings(poll_id) =>
                   /\ last'.op = "save_pairings" /\ last'.exc = ""
                   /\ get_game_pairings(poll_id)'.val \in PairingInputs
                   /\ save_pairings(poll_id, get_game_pairings(poll_id)'.val)]_vars

\* a poll has been shuffled a second time, into a mapping that differs from
\* the one of its first generation
C26_Witness ==
    /\ backend = "sqlite"
    /\ last.op = "save_pairings" /\ last.exc = ""
    /\ \E poll_id \in PollIds :
          /\ SqlMaxReshuffle(poll_id) = 2
          /\ {<<r.santa_id, r.recipient_id>> :
                 r \in {q \in pairing : q.poll_id = poll_id /\ q.reshuffle = 1}}
                # get_game_pairings(poll_id).val


\* C27: on SqliteStore a save_pairings that raises IntegrityError on one of
\* its inserts stores none of the rows of the generation it attempted:
\* get_game_pairings and the maximum generation of every poll are what they
\* were before the call.
C27_FailedSaveStoresNothing ==
    [][(last'.op = "save_pairings" /\ last'.exc = "IntegrityError") =>
          /\ pairing' = pairing
          /\ \A poll_id \in PollIds :
                /\ SqlGetGamePairings(poll_id)' = SqlGetGamePairings(poll_id)
                /\ SqlMaxReshuffle(poll_id)' = SqlMaxReshuffle(poll_id)]_vars

\* a /shuffle of a game in which a user has two participant rows has been
\* refused: the mapping sent two santas to one recipient
C27_Witness ==
    /\ backend = "sqlite"
    /\ last = Call("save_pairings", "IntegrityError")
    /\ \E poll_id \in PollIds : Cardinality(Participants(poll_id)) >= 2


C29_IndexesAgree ==
    /\ [](backend = "memory" =>
            /\ \A g \in Games :
                  MemGameExists(g.name, g.group_id) =>
                     /\ Cardinality({kv \in polls : kv[1] = g}) = 1
                     /\ leaders[g] # NoLeader
            /\ \A poll_id \in PollIds :
                  Cardinality({kv \in polls : kv[2] = poll_id}) <= 1)
    /\ [][(backend = "memory" /\ last'.op = "create_game" /\ last'.exc # "")
              => UNCHANGED <<group_games, polls, leaders>>]_vars


\* C30: every entry of the user reference cache is stored under the id of a
\* user and holds a display string fmt_name gives for that user, whichever
\* chat the saving handler ran in, and what __get_user_reference returns
\* after a failed live lookup is the answer of the store (the saved string,
\* or None), not something else.
C30_CacheKeyedByItsUser ==
    /\ \A r \in user :
          /\ r.user_id \in Users
          /\ r.reference \in {FmtName(r.user_id, b) : b \in BOOLEAN}
    /\ ref_returned.kind \in {"value", "None"}


C32_MembershipIndexesMirror ==
    backend = "memory" =>
        \A u \in Users, g \in Games : (g \in user_games[u]) <=> (u \in game_users[g])

\* a game has a participant, and a remove_user_from_game has just raised
C32_Witness ==
    /\ backend = "memory"
    /\ last = Call("remove_user_from_game", "KeyError")
    /\ \E u \in Users, g \in Games : u \in game_users[g] /\ g \in user_games[u]

=============================================================================
